---- MODULE Spec2Model ----
(***************************************************************************)
(* Order placement, coupon validation and payment reconciliation of the    *)
(* storefront backend (app/services/order.py, app/routers/payment.py).     *)
(*                                                                         *)
(* The database is the committed state; every request handler runs in its  *)
(* own ORM session on a worker.  A handler is cut at its database          *)
(* round trips: reads that precede a commit see the committed state of     *)
(* that moment, a commit writes the session's pending rows at once.        *)
(* Money is counted in paise (1/100 rupee) so that whole-rupee prices and  *)
(* whole-number percentages stay exact.                                    *)
(***************************************************************************)
EXTENDS Integers, Sequences, FiniteSets, TLC

\* ---------------------------------------------------------------- bounds
\* Number of order placements a behaviour may start.
MaxRequests == 2

\* Number of calls that involve the payment gateway (payment-order creations
\* and webhook deliveries) a behaviour may start.
MaxGatewayCalls == 4

\* Number of status-changing requests a behaviour may make.
MaxStatusRequests == 3

\* Number of POST /orders requests a behaviour may start.
MaxCheckouts == 3

\* Order-tracking requests answered in a run.
MaxTrackRequests == 3

\* Product updates by the admin answered in a run.
MaxCatalogUpdates == 2

\* Payment requests of the admin (verify, refund) answered in a run.
MaxPaymentAdminRequests == 2

\* ------------------------------------------------------------- utilities
NULL == "null"                      \* Python None where a string is expected

\* Optional numbers and rows: None is the empty tuple, a value v is <<v>>.
None == <<>>
Some(v) == <<v>>
Val(x) == x[1]

Min(a, b) == IF a <= b THEN a ELSE b

\* Python truthiness of an Optional number: None and 0 are falsy.
Truthy(x) == x # None /\ Val(x) # 0

\* str.upper() on the coupon codes that occur.
Upper(s) == CASE s = "new99" -> "NEW99"
              [] s = "bad"   -> "BAD"
              [] OTHER       -> s

\* ------------------------------------------------------------ the tables
Workers == {"w1", "w2"}             \* concurrently served requests
UserIds == {1, 2}                   \* registered users
ProductIds == {1, 2, 3}             \* catalog rows; product 4 does not exist
CouponId == 1

VARIABLES
    products,        \* Product rows: id -> [mrp, selling_price, stock_quantity, is_active]
    coupons,         \* Coupon rows: id -> row
    coupon_usages,   \* CouponUsage rows, in insertion order
    orders,          \* Order rows, orders[i].id = i
    order_items,     \* OrderItem rows, in insertion order
    payments,        \* Payment rows, in insertion order
    users,           \* User rows: id -> [email, address]
    sess,            \* per worker: the handler it runs and its session-local state
    responses,       \* HTTP responses sent so far
    emails,          \* notification emails handed to the SMTP relay
    started,         \* number of order placements started so far
    cv,              \* argument/result pair of a stand-alone validator call
    gw               \* payment gateway: orders it created, calls that involved it

vars == <<products, coupons, coupon_usages, orders, order_items, payments,
          users, sess, responses, emails, started, cv, gw>>

db == <<products, coupons, coupon_usages, orders, order_items, payments, users>>

Idle == [pc |-> "idle"]

\* ------------------------------------------------------ coupon validator
\* subtotal * (discount_value / 100), exact on whole rupees and whole percents
Percent(subtotal, value) == (subtotal * value) \div 100

\* select(Coupon).where(Coupon.code == coupon_code.upper()).first()
find_coupon(coupon_code, table) ==
    LET hits == {c \in DOMAIN table : table[c].code = Upper(coupon_code)}
    IN  IF hits = {} THEN None ELSE Some(table[CHOOSE c \in hits : TRUE])

\* select(CouponUsage).where(coupon_id == .., user_id == ..).all(), its length
user_usage_count(coupon_id, user_id, usages) ==
    Cardinality({i \in DOMAIN usages :
                    /\ usages[i].coupon_id = coupon_id
                    /\ usages[i].user_id = user_id})

\* raise HTTPException(status_code, detail)
Reject(code, why) ==
    [status |-> code, detail |-> why, final_amount |-> 0,
     discount_amount |-> 0, coupon |-> None]

\* Mutation: a fixed coupon gives its face value whatever the subtotal.
coupon_discount_face_value(coupon, subtotal) ==
    IF coupon.coupon_type = "percentage"
    THEN LET raw == Percent(subtotal, coupon.discount_value)
         IN  IF Truthy(coupon.maximum_discount)
             THEN Min(raw, Val(coupon.maximum_discount))
             ELSE raw
    ELSE coupon.discount_value

\* The discount of an accepted coupon (order.py lines 61-67).
coupon_discount(coupon, subtotal) ==
    IF coupon.coupon_type = "percentage"
    THEN LET raw == Percent(subtotal, coupon.discount_value)
         IN  IF Truthy(coupon.maximum_discount)
             THEN Min(raw, Val(coupon.maximum_discount))
             ELSE raw
    ELSE Min(coupon.discount_value, subtotal)

\* OrderService.validate_and_apply_coupon, as a function of what it reads:
\* the coupon table, the CouponUsage table and the clock.
validate_and_apply_coupon(coupon_code, user_id, subtotal, table, usages, t) ==
    IF coupon_code = NULL \/ coupon_code = ""
    THEN [status |-> 200, detail |-> "", final_amount |-> subtotal,
          discount_amount |-> 0, coupon |-> None]
    ELSE LET found == find_coupon(coupon_code, table) IN
         IF found = None THEN Reject(400, "Invalid coupon code")
         ELSE LET coupon == Val(found) IN
         IF ~coupon.is_active THEN Reject(400, "Coupon is not active")
         ELSE IF coupon.valid_from > t THEN Reject(400, "Coupon is not yet valid")
         ELSE IF coupon.valid_until # None /\ Val(coupon.valid_until) < t
              THEN Reject(400, "Coupon has expired")
         ELSE IF Truthy(coupon.minimum_order_amount)
                 /\ subtotal < Val(coupon.minimum_order_amount)
              THEN Reject(400, "Minimum order amount required for this coupon")
         ELSE IF Truthy(coupon.usage_limit)
                 /\ coupon.usage_count >= Val(coupon.usage_limit)
              THEN Reject(400, "Coupon usage limit exceeded")
         ELSE IF Truthy(coupon.per_user_limit)
                 /\ user_usage_count(coupon.id, user_id, usages)
                        >= Val(coupon.per_user_limit)
              THEN Reject(400, "You have already used this coupon the maximum allowed times")
         ELSE LET discount_amount == coupon_discount(coupon, subtotal)
              IN  [status |-> 200, detail |-> "",
                   final_amount |-> subtotal - discount_amount,
                   discount_amount |-> discount_amount,
                   coupon |-> Some(coupon.id)]

\* ------------------------------------------------------------ create_order
\* Mutation: the list price is charged whatever the selling price.
item_price_mrp_only(product) == product.mrp

\* `getattr(product, 'selling_price', None) or product.mrp`: a selling price
\* of 0 is falsy and falls back to the mrp.
item_price(product) ==
    IF product.selling_price # 0 THEN product.selling_price ELSE product.mrp

\* raise HTTPException(status_code, detail) out of iteration `line` of the
\* pricing loop; the detail names the product.
ItemError(code, why, item, line) ==
    [status |-> code, detail |-> why, product_id |-> item.product_id,
     line |-> line, total |-> 0, order_items |-> <<>>]

\* The pricing loop (order.py lines 78-99) from line item `line` on, in
\* order; the first line item that fails decides the rejection.
RECURSIVE price_items(_, _, _)
price_items(items, line, catalog) ==
    IF line > Len(items)
    THEN [status |-> 200, detail |-> "", product_id |-> 0, line |-> 0,
          total |-> 0, order_items |-> <<>>]
    ELSE LET item == items[line] IN
         IF item.product_id \notin DOMAIN catalog
         THEN ItemError(404, "Product not found", item, line)
         ELSE LET product == catalog[item.product_id] IN
         IF ~product.is_active
         THEN ItemError(400, "Product is not available", item, line)
         ELSE IF item.quantity > product.stock_quantity
         THEN ItemError(400, "Insufficient stock", item, line)
         ELSE LET rest == price_items(items, line + 1, catalog) IN
              IF rest.status # 200 THEN rest
              ELSE [rest EXCEPT
                      !.total = item_price(product) * item.quantity + @,
                      !.order_items =
                          <<[product_id |-> item.product_id,
                             quantity |-> item.quantity,
                             price_at_purchase |-> item_price(product)]>> \o @]

\* The stock loop (order.py lines 136-139): the session's Product objects are
\* expired by the commit of line 127, so the first access re-reads the row;
\* a second line item for the same product works on the session's object.
RECURSIVE decrement_stock(_, _)
decrement_stock(items, stock) ==
    IF items = <<>> THEN stock
    ELSE LET item == Head(items) IN
         decrement_stock(Tail(items),
             [stock EXCEPT ![item.product_id] = @ - item.quantity])

\* The HTTP response of a handler: status, detail and, for a rejected line
\* item, the product it names and the loop iteration that raised.
Response(op, code, why, product_id, line, order_id) ==
    [op |-> op, status |-> code, detail |-> why, product_id |-> product_id,
     line |-> line, order_id |-> order_id, event |-> None]

\* Mutation: the header's final amount ignores the discount.
order_row_undiscounted(id, inp, total, discount, final) ==
    [id |-> id,
     user_id |-> inp.user_id,
     total_amount |-> total,
     discount_amount |-> discount,
     final_amount |-> total,
     payment_type |-> inp.payment_method,
     payment_status |-> IF inp.payment_method = "online" THEN "paid" ELSE "unpaid",
     order_status |-> "placed",
     coupon_code |-> IF inp.coupon_code \in {NULL, ""}
                     THEN NULL ELSE Upper(inp.coupon_code),
     shipping_email |-> inp.shipping.email,
     tracking_id |-> NULL]

\* Order(...) as built at lines 105-125.
order_row(id, inp, total, discount, final) ==
    [id |-> id,
     user_id |-> inp.user_id,
     total_amount |-> total,
     discount_amount |-> discount,
     final_amount |-> final,
     payment_type |-> inp.payment_method,
     payment_status |-> IF inp.payment_method = "online" THEN "paid" ELSE "unpaid",
     order_status |-> "placed",
     coupon_code |-> IF inp.coupon_code \in {NULL, ""}
                     THEN NULL ELSE Upper(inp.coupon_code),
     shipping_email |-> inp.shipping.email,
     tracking_id |-> NULL]

\* Mutation: the Order header is committed before the coupon is validated,
\* so a refused coupon leaves an order behind.
create_order_validate_after_insert(w, inp) ==
    /\ sess[w] = Idle
    /\ started < MaxRequests
    /\ started' = started + 1
    /\ LET priced == price_items(inp.items, 1, products)
           v == validate_and_apply_coupon(inp.coupon_code, inp.user_id,
                    priced.total, coupons, coupon_usages, inp.now)
       IN  IF priced.status # 200
           THEN /\ responses' = Append(responses,
                      Response("create_order", priced.status, priced.detail,
                               priced.product_id, priced.line, 0))
                /\ UNCHANGED <<sess, orders>>
           ELSE IF v.status # 200
           THEN /\ orders' = Append(orders,
                      order_row(Len(orders) + 1, inp, priced.total, 0, priced.total))
                /\ responses' = Append(responses,
                      Response("create_order", v.status, v.detail, 0, 0, 0))
                /\ sess' = sess
           ELSE /\ UNCHANGED <<responses, orders>>
                /\ sess' = [sess EXCEPT ![w] =
                       [pc |-> "insert_order", input |-> inp,
                        calculated_total |-> priced.total,
                        order_items |-> priced.order_items,
                        final_amount |-> v.final_amount,
                        discount_amount |-> v.discount_amount,
                        coupon |-> v.coupon,
                        order_id |-> 0,
                        stock |-> <<>>,
                        usage_count |-> 0]]
    /\ UNCHANGED <<products, coupons, coupon_usages, order_items, payments,
                   users, emails, cv, gw>>

\* Lines 73-102: price the line items and validate the coupon; a rejection
\* raises before anything is added to the session.
create_order_validate(w, inp) ==
    /\ sess[w] = Idle
    /\ started < MaxRequests
    /\ started' = started + 1
    /\ LET priced == price_items(inp.items, 1, products)
           v == validate_and_apply_coupon(inp.coupon_code, inp.user_id,
                    priced.total, coupons, coupon_usages, inp.now)
       IN  IF priced.status # 200
           THEN /\ responses' = Append(responses,
                      Response("create_order", priced.status, priced.detail,
                               priced.product_id, priced.line, 0))
                /\ sess' = sess
           ELSE IF v.status # 200
           THEN /\ responses' = Append(responses,
                      Response("create_order", v.status, v.detail, 0, 0, 0))
                /\ sess' = sess
           ELSE /\ responses' = responses
                /\ sess' = [sess EXCEPT ![w] =
                       [pc |-> "insert_order", input |-> inp,
                        calculated_total |-> priced.total,
                        order_items |-> priced.order_items,
                        final_amount |-> v.final_amount,
                        discount_amount |-> v.discount_amount,
                        coupon |-> v.coupon,
                        order_id |-> 0,
                        stock |-> <<>>,
                        usage_count |-> 0]]
    /\ UNCHANGED <<db, emails, cv, gw>>

\* Lines 105-128: the Order header is inserted and committed on its own.
create_order_insert(w) ==
    /\ sess[w].pc = "insert_order"
    /\ LET s == sess[w]
           id == Len(orders) + 1
       IN  /\ orders' = Append(orders,
                  order_row(id, s.input, s.calculated_total,
                            s.discount_amount, s.final_amount))
           /\ sess' = [sess EXCEPT ![w].pc = "update_stock", ![w].order_id = id]
    /\ UNCHANGED <<products, coupons, coupon_usages, order_items, payments,
                   users, responses, emails, started, cv, gw>>

\* Lines 130-151: the items are added to the session and each product's stock
\* is read back and decremented in the session; nothing is written yet.
create_order_update_stock(w) ==
    /\ sess[w].pc = "update_stock"
    /\ LET s == sess[w]
           touched == {s.input.items[i].product_id : i \in DOMAIN s.input.items}
           current == [p \in touched |-> products[p].stock_quantity]
       IN  sess' = [sess EXCEPT ![w].pc = "commit_items",
                                ![w].stock = decrement_stock(s.input.items, current)]
    /\ UNCHANGED <<db, responses, emails, started, cv, gw>>

\* Line 153: the commit writes the items, the stock values computed in the
\* session (UPDATE product SET stock_quantity = <value>) and the user's
\* saved address.
create_order_commit_items(w) ==
    /\ sess[w].pc = "commit_items"
    /\ LET s == sess[w] IN
       /\ order_items' = order_items \o
              [i \in DOMAIN s.order_items |->
                  [order_id |-> s.order_id,
                   product_id |-> s.order_items[i].product_id,
                   quantity |-> s.order_items[i].quantity,
                   price_at_purchase |-> s.order_items[i].price_at_purchase]]
       /\ products' = [p \in DOMAIN products |->
              IF p \in DOMAIN s.stock
              THEN [products[p] EXCEPT !.stock_quantity = s.stock[p]]
              ELSE products[p]]
       /\ users' = IF s.input.user_id \in DOMAIN users
                   THEN [users EXCEPT ![s.input.user_id].address =
                                          s.input.shipping.address]
                   ELSE users
       /\ sess' = [sess EXCEPT ![w].pc =
              IF s.coupon # None /\ s.discount_amount > 0
              THEN "track_usage" ELSE "send_email"]
    /\ UNCHANGED <<coupons, coupon_usages, orders, payments, responses,
                   emails, started, cv, gw>>

\* Lines 157-168: `coupon.usage_count += 1` on the session's Coupon object,
\* which the last commit expired, so the count is read back first.
create_order_track_usage(w) ==
    /\ sess[w].pc = "track_usage"
    /\ sess' = [sess EXCEPT ![w].pc = "commit_usage",
                   ![w].usage_count = coupons[Val(sess[w].coupon)].usage_count + 1]
    /\ UNCHANGED <<db, responses, emails, started, cv, gw>>

\* Line 170: the CouponUsage row and the new usage_count are committed.
create_order_commit_usage(w) ==
    /\ sess[w].pc = "commit_usage"
    /\ LET s == sess[w] IN
       /\ coupon_usages' = Append(coupon_usages,
              [coupon_id |-> Val(s.coupon), user_id |-> s.input.user_id,
               order_id |-> s.order_id, discount_applied |-> s.discount_amount])
       /\ coupons' = [coupons EXCEPT ![Val(s.coupon)].usage_count = s.usage_count]
       /\ sess' = [sess EXCEPT ![w].pc = "send_email"]
    /\ UNCHANGED <<products, orders, order_items, payments, users, responses,
                   emails, started, cv, gw>>

\* Mutation: a failure of the send is raised to the caller.
create_order_send_email_raising(w) ==
    /\ sess[w].pc = "send_email"
    /\ LET s == sess[w] IN
       /\ \E sent \in BOOLEAN :
             /\ emails' = IF sent /\ s.input.user_id \in DOMAIN users
                          THEN emails \cup {[kind |-> "order_success",
                                             order_id |-> s.order_id,
                                             to |-> s.input.shipping.email]}
                          ELSE emails
             /\ responses' = Append(responses,
                    IF sent
                    THEN Response("create_order", 200, "", 0, 0, s.order_id)
                    ELSE Response("create_order", 500,
                                  "Internal Server Error", 0, 0, 0))
       /\ sess' = [sess EXCEPT ![w] = Idle]
    /\ UNCHANGED <<db, started, cv, gw>>

\* Lines 172-218: the confirmation email is best effort (a failure of the
\* send is caught and printed), then the order is returned.
create_order_send_email(w) ==
    /\ sess[w].pc = "send_email"
    /\ LET s == sess[w] IN
       /\ \E sent \in BOOLEAN :
             emails' = IF sent /\ s.input.user_id \in DOMAIN users
                       THEN emails \cup {[kind |-> "order_success",
                                          order_id |-> s.order_id,
                                          to |-> s.input.shipping.email]}
                       ELSE emails
       /\ responses' = Append(responses,
              Response("create_order", 200, "", 0, 0, s.order_id))
       /\ sess' = [sess EXCEPT ![w] = Idle]
    /\ UNCHANGED <<db, started, cv, gw>>

create_order(w) ==
    \/ create_order_insert(w)
    \/ create_order_update_stock(w)
    \/ create_order_commit_items(w)
    \/ create_order_track_usage(w)
    \/ create_order_commit_usage(w)
    \/ create_order_send_email(w)

\* ------------------------------------------------------- payment gateway
\* settings.RAZORPAY_WEBHOOK_SECRET
WebhookSecret == "webhook_secret"

\* HMAC-SHA256 of a body under a key: equal exactly when key and body are.
Hmac(key, body) == <<key, body>>

\* Mutation: any signature that is present verifies.
verify_webhook_signature_any(body, signature, secret) == TRUE

\* client.utility.verify_webhook_signature(body, signature, secret)
verify_webhook_signature(body, signature, secret) ==
    signature = Hmac(secret, body)

\* int(internal_order_id) on the notes that occur; None is a ValueError.
ParseInt(s) == CASE s = "1" -> Some(1)
                 [] s = "2" -> Some(2)
                 [] s = "3" -> Some(3)
                 [] OTHER   -> None

\* select(Payment).where(Payment.order_id == ..): the rows .first() may give
payments_of_order(rows, order_id) ==
    {i \in DOMAIN rows : rows[i].order_id = order_id}

\* select(Payment).where(Payment.razorpay_order_id == ..)
payments_of_gateway_order(rows, razorpay_order_id) ==
    {i \in DOMAIN rows : rows[i].razorpay_order_id = razorpay_order_id}

\* .first(): no row when nothing matches (0), else one of the matching rows
\* (the query has no ORDER BY).
first(hits) == IF hits = {} THEN {0} ELSE hits

\* The HTTP response of the payment handlers; order_id is the order the
\* handler resolved (0: none), event the webhook body it answered.
PaymentResponse(op, code, why, order_id, event) ==
    [op |-> op, status |-> code, detail |-> why, product_id |-> 0,
     line |-> 0, order_id |-> order_id, event |-> event]

\* Lines 19-39 of create_payment_order: the gateway creates its order, and
\* when an order id was passed the order's Payment row is looked up.
create_payment_order_lookup(w, inp) ==
    /\ sess[w] = Idle
    /\ gw.calls < MaxGatewayCalls
    /\ gw' = [orders |-> gw.orders + 1, calls |-> gw.calls + 1]
    /\ IF Truthy(inp.order_id)
       THEN /\ \E pr \in first(payments_of_order(payments, Val(inp.order_id))) :
                 sess' = [sess EXCEPT ![w] =
                             [pc |-> "payment_order_commit", input |-> inp,
                              razorpay_order_id |-> Some(gw.orders + 1),
                              payment_record |-> pr]]
            /\ UNCHANGED responses
       ELSE /\ responses' = Append(responses,
                   PaymentResponse("create_payment_order", 200, "", 0, None))
            /\ UNCHANGED sess
    /\ UNCHANGED <<db, emails, started, cv>>

\* Lines 41-60: the Payment row is updated or created, committed, and the
\* gateway order returned.
create_payment_order_commit(w) ==
    /\ sess[w].pc = "payment_order_commit"
    /\ LET s == sess[w] IN
       /\ payments' =
              IF s.payment_record # 0
              THEN [payments EXCEPT ![s.payment_record] =
                       [@ EXCEPT !.razorpay_order_id = s.razorpay_order_id,
                                 !.payment_method = "razorpay",
                                 !.payment_status =
                                     IF @ = NULL THEN "pending" ELSE @]]
              ELSE Append(payments,
                       [order_id |-> Val(s.input.order_id),
                        payment_id |-> NULL,
                        razorpay_order_id |-> s.razorpay_order_id,
                        razorpay_signature |-> NULL,
                        amount |-> s.input.amount,
                        payment_method |-> "razorpay",
                        payment_status |-> "pending"])
       /\ responses' = Append(responses,
              PaymentResponse("create_payment_order", 200, "",
                              Val(s.input.order_id), None))
       /\ sess' = [sess EXCEPT ![w] = Idle]
    /\ UNCHANGED <<products, coupons, coupon_usages, orders, order_items,
                   users, emails, started, cv, gw>>

\* Mutation: the webhook always creates a Payment row.
webhook_payment_rows_insert_only(rows, payment_record, order, entity) ==
    Append(rows,
        [order_id |-> order.id,
         payment_id |-> entity.id,
         razorpay_order_id |-> entity.order_id,
         razorpay_signature |-> entity.signature,
         amount |-> order.final_amount,
         payment_method |-> "razorpay",
         payment_status |-> "success"])

\* Lines 114-132: the Payment table after the webhook's update-or-create.
webhook_payment_rows(rows, payment_record, order, entity) ==
    IF payment_record # 0
    THEN [rows EXCEPT ![payment_record] =
             [@ EXCEPT !.payment_id = entity.id,
                       !.razorpay_order_id = entity.order_id,
                       !.razorpay_signature = entity.signature,
                       !.payment_status = "success"]]
    ELSE Append(rows,
             [order_id |-> order.id,
              payment_id |-> entity.id,
              razorpay_order_id |-> entity.order_id,
              razorpay_signature |-> entity.signature,
              amount |-> order.final_amount,
              payment_method |-> "razorpay",
              payment_status |-> "success"])

\* Lines 86-107: the order and the Payment row a payment.captured entity
\* resolves to, as the set of outcomes [order, payment_record] the reads can
\* give (0: none).  The fallback by gateway order id is taken only when the
\* entity carries no internal_order_id note.
resolve_order(entity, order_rows, payment_rows) ==
    IF entity.internal_order_id # NULL /\ entity.internal_order_id # ""
    THEN LET id == Val(ParseInt(entity.internal_order_id)) IN
         IF id \in DOMAIN order_rows
         THEN {[order |-> id, payment_record |-> pr] :
                  pr \in first(payments_of_order(payment_rows, id))}
         ELSE {[order |-> 0, payment_record |-> 0]}
    ELSE IF entity.order_id # None
         THEN {[order |-> IF pr # 0 /\ payment_rows[pr].order_id \in DOMAIN order_rows
                          THEN payment_rows[pr].order_id ELSE 0,
                payment_record |-> pr] :
                  pr \in first(payments_of_gateway_order(payment_rows,
                                                         entity.order_id))}
         ELSE {[order |-> 0, payment_record |-> 0]}

\* Mutation: every event type is handled as payment.captured is.
payment_webhook_receive_any_event(w, req) ==
    /\ sess[w] = Idle
    /\ gw.calls < MaxGatewayCalls
    /\ gw' = [gw EXCEPT !.calls = @ + 1]
    /\ LET answer(code, why) ==
               /\ responses' = Append(responses,
                      PaymentResponse("payment_webhook", code, why, 0, req.body))
               /\ UNCHANGED sess
           entity == req.body.entity
       IN  IF req.signature = None
           THEN answer(400, "Missing signature")
           ELSE IF ~verify_webhook_signature(req.body, req.signature,
                                             WebhookSecret)
           THEN answer(400, "Invalid signature")
           ELSE IF /\ entity.internal_order_id # NULL
                   /\ entity.internal_order_id # ""
                   /\ ParseInt(entity.internal_order_id) = None
           THEN answer(500, "Internal Server Error")
           ELSE \E r \in resolve_order(entity, orders, payments) :
                   IF r.order = 0
                   THEN answer(200, "")
                   ELSE /\ sess' = [sess EXCEPT ![w] =
                                [pc |-> "webhook_commit", body |-> req.body,
                                 order_id |-> r.order,
                                 payment_record |-> r.payment_record]]
                        /\ UNCHANGED responses
    /\ UNCHANGED <<db, emails, started, cv>>

\* Lines 64-109 of payment_webhook: the signature checks, the event filter
\* and the reads that resolve the order.
payment_webhook_receive(w, req) ==
    /\ sess[w] = Idle
    /\ gw.calls < MaxGatewayCalls
    /\ gw' = [gw EXCEPT !.calls = @ + 1]
    /\ LET answer(code, why) ==
               /\ responses' = Append(responses,
                      PaymentResponse("payment_webhook", code, why, 0, req.body))
               /\ UNCHANGED sess
           entity == req.body.entity
       IN  IF req.signature = None
           THEN answer(400, "Missing signature")
           ELSE IF ~verify_webhook_signature(req.body, req.signature,
                                             WebhookSecret)
           THEN answer(400, "Invalid signature")
           ELSE IF req.body.event # "payment.captured"
           THEN answer(200, "")
           ELSE IF /\ entity.internal_order_id # NULL
                   /\ entity.internal_order_id # ""
                   /\ ParseInt(entity.internal_order_id) = None
           THEN answer(500, "Internal Server Error")
           ELSE \E r \in resolve_order(entity, orders, payments) :
                   IF r.order = 0
                   THEN answer(200, "")
                   ELSE /\ sess' = [sess EXCEPT ![w] =
                                [pc |-> "webhook_commit", body |-> req.body,
                                 order_id |-> r.order,
                                 payment_record |-> r.payment_record]]
                        /\ UNCHANGED responses
    /\ UNCHANGED <<db, emails, started, cv>>

\* Lines 109-134: the order is marked paid, the Payment row updated or
\* created, both in one commit.
payment_webhook_commit(w) ==
    /\ sess[w].pc = "webhook_commit"
    /\ LET s == sess[w] IN
       /\ orders' = [orders EXCEPT ![s.order_id].payment_status = "paid"]
       /\ payments' = webhook_payment_rows(payments, s.payment_record,
                                           orders[s.order_id], s.body.entity)
       /\ sess' = [sess EXCEPT ![w].pc = "webhook_email"]
    /\ UNCHANGED <<products, coupons, coupon_usages, order_items, users,
                   responses, emails, started, cv, gw>>

\* Lines 136-192: the confirmation email is best effort, then {"status": "ok"}.
payment_webhook_email(w) ==
    /\ sess[w].pc = "webhook_email"
    /\ LET s == sess[w]
           order == orders[s.order_id]
       IN  /\ \E sent \in BOOLEAN :
                 emails' = IF sent /\ order.user_id \in DOMAIN users
                           THEN emails \cup {[kind |-> "order_success",
                                              order_id |-> order.id,
                                              to |-> order.shipping_email]}
                           ELSE emails
           /\ responses' = Append(responses,
                  PaymentResponse("payment_webhook", 200, "", s.order_id, s.body))
           /\ sess' = [sess EXCEPT ![w] = Idle]
    /\ UNCHANGED <<db, started, cv, gw>>

payment_webhook(w) ==
    \/ payment_webhook_commit(w)
    \/ payment_webhook_email(w)


\* ------------------------------------------------------ POST /orders
\* select(User).where(User.email == ..): the rows .first() may give
users_with_email(rows, email) == {u \in DOMAIN rows : rows[u].email = email}

\* The arguments the router passes to OrderService.create_order (lines 84-92).
service_input(order_in, user_id) ==
    [op |-> "create_order", items |-> order_in.items,
     coupon_code |-> order_in.coupon_code, user_id |-> user_id,
     payment_method |-> order_in.payment_method,
     shipping |-> order_in.shipping, now |-> order_in.now]

\* Lines 37-48 of the router's create_order: an authenticated caller is the
\* order's user; for a guest the user with the shipping email is looked up.
orders_create_order_lookup(w, req) ==
    /\ sess[w] = Idle
    /\ started < MaxCheckouts
    /\ started' = started + 1
    /\ IF req.current_user # None
       THEN sess' = [sess EXCEPT ![w] =
                [pc |-> "call_service",
                 input |-> service_input(req.order_in, Val(req.current_user))]]
       ELSE \E u \in first(users_with_email(users, req.order_in.shipping.email)) :
                sess' = [sess EXCEPT ![w] =
                    [pc |-> "commit_user", existing_user |-> u,
                     order_in |-> req.order_in]]
    /\ UNCHANGED <<db, responses, emails, cv, gw>>

\* Mutation: User.email carries no unique constraint.
orders_create_order_commit_user_not_unique(w) ==
    /\ sess[w].pc = "commit_user"
    /\ LET s == sess[w]
           email == s.order_in.shipping.email
       IN  IF s.existing_user # 0
           THEN /\ users' = [users EXCEPT ![s.existing_user].address =
                                              s.order_in.shipping.address]
                /\ sess' = [sess EXCEPT ![w] =
                       [pc |-> "call_service",
                        input |-> service_input(s.order_in, s.existing_user)]]
           ELSE /\ users' = Append(users,
                      [email |-> email, address |-> s.order_in.shipping.address,
                       is_guest |-> TRUE])
                /\ sess' = [sess EXCEPT ![w] =
                       [pc |-> "call_service",
                        input |-> service_input(s.order_in, Len(users) + 1)]]
    /\ UNCHANGED <<products, coupons, coupon_usages, orders, order_items,
                   payments, responses, emails, started, cv, gw>>

\* Lines 49-82: the existing user's address is overwritten, or a guest user
\* is created, and committed before the service is called.  User.email is
\* unique: inserting an email that a row already has fails the commit.
orders_create_order_commit_user(w) ==
    /\ sess[w].pc = "commit_user"
    /\ LET s == sess[w]
           email == s.order_in.shipping.email
       IN  IF s.existing_user # 0
           THEN /\ users' = [users EXCEPT ![s.existing_user].address =
                                              s.order_in.shipping.address]
                /\ sess' = [sess EXCEPT ![w] =
                       [pc |-> "call_service",
                        input |-> service_input(s.order_in, s.existing_user)]]
                /\ UNCHANGED responses
           ELSE IF users_with_email(users, email) # {}
           THEN /\ responses' = Append(responses,
                      Response("create_order", 500, "Internal Server Error",
                               0, 0, 0))
                /\ sess' = [sess EXCEPT ![w] = Idle]
                /\ UNCHANGED users
           ELSE /\ users' = Append(users,
                      [email |-> email, address |-> s.order_in.shipping.address,
                       is_guest |-> TRUE])
                /\ sess' = [sess EXCEPT ![w] =
                       [pc |-> "call_service",
                        input |-> service_input(s.order_in, Len(users) + 1)]]
                /\ UNCHANGED responses
    /\ UNCHANGED <<products, coupons, coupon_usages, orders, order_items,
                   payments, emails, started, cv, gw>>

\* Lines 84-92 of the router with lines 73-102 of the service: the call of
\* OrderService.create_order up to its first commit, as create_order_validate.
orders_create_order_service(w) ==
    /\ sess[w].pc = "call_service"
    /\ LET inp == sess[w].input
           priced == price_items(inp.items, 1, products)
           v == validate_and_apply_coupon(inp.coupon_code, inp.user_id,
                    priced.total, coupons, coupon_usages, inp.now)
       IN  IF priced.status # 200
           THEN /\ responses' = Append(responses,
                      Response("create_order", priced.status, priced.detail,
                               priced.product_id, priced.line, 0))
                /\ sess' = [sess EXCEPT ![w] = Idle]
           ELSE IF v.status # 200
           THEN /\ responses' = Append(responses,
                      Response("create_order", v.status, v.detail, 0, 0, 0))
                /\ sess' = [sess EXCEPT ![w] = Idle]
           ELSE /\ responses' = responses
                /\ sess' = [sess EXCEPT ![w] =
                       [pc |-> "insert_order", input |-> inp,
                        calculated_total |-> priced.total,
                        order_items |-> priced.order_items,
                        final_amount |-> v.final_amount,
                        discount_amount |-> v.discount_amount,
                        coupon |-> v.coupon,
                        order_id |-> 0,
                        stock |-> <<>>,
                        usage_count |-> 0]]
    /\ UNCHANGED <<db, emails, started, cv, gw>>

orders_create_order(w) ==
    \/ orders_create_order_commit_user(w)
    \/ orders_create_order_service(w)
    \/ create_order(w)

\* ------------------------------------------------------- order status
\* OrderStatus (models/order.py 18-23)
OrderStatuses == {"placed", "shipped", "delivered", "returned", "cancelled"}

StatusOps == {"update_order_status", "admin_update_order_status",
              "admin_cancel_order"}

\* The status-changing requests answered so far.
status_requests ==
    Cardinality({i \in DOMAIN responses : responses[i].op \in StatusOps})

\* OrderService.update_status (order.py 229-248), as the response it ends in.
\* Order declares order_status and no field `status`; the assignment
\* `order.status = new_status` of line 240 to an undeclared field of the
\* model raises ValueError, so for an existing order the call ends there,
\* before the commit of line 246 and the emails of lines 249-313.
update_status(order_id, new_status, tracking_id, order_rows) ==
    IF order_id \notin DOMAIN order_rows
    THEN [status |-> 404, detail |-> "Order not found"]
    ELSE [status |-> 500, detail |-> "Internal Server Error"]

\* PATCH /orders/{id}/status (orders.py 153-164)
orders_update_order_status(w, req) ==
    /\ sess[w] = Idle
    /\ status_requests < MaxStatusRequests
    /\ LET r == IF ~req.current_user.is_superuser
                THEN [status |-> 403, detail |-> "Not authorized"]
                ELSE update_status(req.id, req.status, req.tracking_id, orders)
       IN  responses' = Append(responses,
               Response("update_order_status", r.status, r.detail, 0, 0, req.id))
    /\ UNCHANGED <<db, sess, emails, started, cv, gw>>

\* check_permission(admin_user, permission) (admin.py 76-82)
check_permission(admin_user, permission) ==
    \/ admin_user.role = "super_admin"
    \/ permission \in admin_user.permissions

\* get_admin_user and the permission check that open the admin endpoints
\* (admin.py 65-74, 745-746): the 403 they raise, or 200.
admin_access(admin_user, permission) ==
    IF admin_user = None
    THEN [status |-> 403, detail |-> "Admin access required"]
    ELSE IF ~Val(admin_user).is_active
    THEN [status |-> 403, detail |-> "Admin account is inactive"]
    ELSE IF ~check_permission(Val(admin_user), permission)
    THEN [status |-> 403, detail |-> "Insufficient permissions"]
    ELSE [status |-> 200, detail |-> ""]

\* What the admin order endpoints answer (admin.py 745-750, 797-802): the
\* 403 of the access checks, 404 for a missing order, else 200.
admin_order_access(req, order_rows) ==
    LET access == admin_access(req.admin_user, "orders.update") IN
    IF access.status # 200 THEN access
    ELSE IF req.order_id \notin DOMAIN order_rows
    THEN [status |-> 404, detail |-> "Order not found"]
    ELSE [status |-> 200, detail |-> ""]

\* PUT /admin/orders/{order_id}/status (admin.py 736-758): the status of the
\* request is set and committed, and the order returned.
admin_update_order_status(w, req) ==
    /\ sess[w] = Idle
    /\ status_requests < MaxStatusRequests
    /\ LET r == admin_order_access(req, orders) IN
       /\ orders' = IF r.status = 200
                    THEN [orders EXCEPT ![req.order_id].order_status = req.status]
                    ELSE orders
       /\ responses' = Append(responses,
              Response("admin_update_order_status", r.status, r.detail,
                       0, 0, req.order_id))
    /\ UNCHANGED <<products, coupons, coupon_usages, order_items, payments,
                   users, sess, emails, started, cv, gw>>

\* PUT /admin/orders/{order_id}/cancel (admin.py 788-812): the status is set
\* to cancelled and committed, and the order returned.
admin_cancel_order(w, req) ==
    /\ sess[w] = Idle
    /\ status_requests < MaxStatusRequests
    /\ LET r == admin_order_access(req, orders) IN
       /\ orders' = IF r.status = 200
                    THEN [orders EXCEPT ![req.order_id].order_status = "cancelled"]
                    ELSE orders
       /\ responses' = Append(responses,
              Response("admin_cancel_order", r.status, r.detail,
                       0, 0, req.order_id))
    /\ UNCHANGED <<products, coupons, coupon_usages, order_items, payments,
                   users, sess, emails, started, cv, gw>>

\* -------------------------------------------------------- order tracking
\* Order.order_number (models/order.py 37): the column defaults to the empty
\* string and no statement of the program assigns it.
order_number(order) == ""

\* str.strip().upper() on the order numbers that are asked for.
normalize_order_number(s) == CASE s = " "         -> ""
                               [] s = " pr000001" -> "PR000001"
                               [] OTHER           -> s

orders_with_number(order_rows, number) ==
    {o \in DOMAIN order_rows : order_number(order_rows[o]) = number}

track_requests ==
    Cardinality({i \in DOMAIN responses : responses[i].op = "track_order"})

\* What GET /orders/track/{order_number} answers when the query of lines
\* 176-178 returned order o, 0 for none (orders.py 179-190): an empty or
\* absent header is falsy and skips the email comparison.
track_order_answer(req, order_rows, o) ==
    IF o = 0
    THEN [status |-> 404, detail |-> "Order not found"]
    ELSE IF /\ req.current_user # None
            /\ order_rows[o].user_id # Val(req.current_user).id
            /\ ~Val(req.current_user).is_superuser
    THEN [status |-> 403, detail |-> "Not authorized"]
    ELSE IF /\ req.current_user = None
            /\ req.x_user_email \notin {NULL, ""}
            /\ order_rows[o].shipping_email # req.x_user_email
    THEN [status |-> 403, detail |-> "Email does not match order"]
    ELSE [status |-> 200, detail |-> ""]

\* GET /orders/track/{order_number} (orders.py 166-240): reads only; a 200
\* carries the details of the order whose id the response names.
track_order(w, req) ==
    /\ sess[w] = Idle
    /\ track_requests < MaxTrackRequests
    /\ \E o \in first(orders_with_number(orders,
                          normalize_order_number(req.order_number))) :
          LET r == track_order_answer(req, orders, o) IN
          responses' = Append(responses,
              Response("track_order", r.status, r.detail, 0, 0, o))
    /\ UNCHANGED <<db, sess, emails, started, cv, gw>>

\* -------------------------------------------------------- product catalog
catalog_updates ==
    Cardinality({i \in DOMAIN responses :
                    responses[i].op = "admin_update_product"})

\* Lines 577-587 of update_product: every form field that was sent
\* overwrites the product's column.
updated_product(product, req) ==
    [mrp            |-> IF req.mrp # None THEN Val(req.mrp) ELSE product.mrp,
     selling_price  |-> IF req.selling_price # None
                        THEN Val(req.selling_price) ELSE product.selling_price,
     stock_quantity |-> IF req.stock_quantity # None
                        THEN Val(req.stock_quantity) ELSE product.stock_quantity,
     is_active      |-> IF req.is_active # None
                        THEN Val(req.is_active) ELSE product.is_active]

\* What update_product answers (admin.py 570-575): the 403 of the access
\* checks, 404 for a missing product, else 200.
admin_product_access(req, product_rows) ==
    LET access == admin_access(req.admin_user, "products.update") IN
    IF access.status # 200 THEN access
    ELSE IF req.product_id \notin DOMAIN product_rows
    THEN [status |-> 404, detail |-> "Product not found"]
    ELSE [status |-> 200, detail |-> ""]

\* Mutation: a new price is also written to the lines already sold.
admin_update_product_repricing(w, req) ==
    /\ sess[w] = Idle
    /\ catalog_updates < MaxCatalogUpdates
    /\ LET r == admin_product_access(req, products)
           row == updated_product(products[req.product_id], req)
       IN
       /\ products' = IF r.status = 200
                      THEN [products EXCEPT ![req.product_id] = row]
                      ELSE products
       /\ order_items' = IF r.status = 200
                         THEN [i \in DOMAIN order_items |->
                                  IF order_items[i].product_id = req.product_id
                                  THEN [order_items[i] EXCEPT
                                           !.price_at_purchase = item_price(row)]
                                  ELSE order_items[i]]
                         ELSE order_items
       /\ responses' = Append(responses,
              Response("admin_update_product", r.status, r.detail,
                       req.product_id, 0, 0))
    /\ UNCHANGED <<coupons, coupon_usages, orders, payments, users, sess,
                   emails, started, cv, gw>>

\* PUT /admin/products/{product_id} (admin.py 548-633): the sent fields are
\* written to the Product row and committed; no other table is touched.
admin_update_product(w, req) ==
    /\ sess[w] = Idle
    /\ catalog_updates < MaxCatalogUpdates
    /\ LET r == admin_product_access(req, products) IN
       /\ products' = IF r.status = 200
                      THEN [products EXCEPT ![req.product_id] =
                               updated_product(@, req)]
                      ELSE products
       /\ responses' = Append(responses,
              Response("admin_update_product", r.status, r.detail,
                       req.product_id, 0, 0))
    /\ UNCHANGED <<coupons, coupon_usages, orders, order_items, payments,
                   users, sess, emails, started, cv, gw>>

\* ------------------------------------------------- payments by the admin
payment_admin_requests ==
    Cardinality({i \in DOMAIN responses :
                    responses[i].op \in {"admin_verify_order_payment",
                                         "admin_refund_payment"}})

\* POST /admin/orders/{order_id}/verify-payment (admin.py 760-786): the
\* order's payment_status is set to paid and committed.
admin_verify_order_payment(w, req) ==
    /\ sess[w] = Idle
    /\ payment_admin_requests < MaxPaymentAdminRequests
    /\ LET access == admin_access(req.admin_user, "payments.update")
           r == IF access.status # 200 THEN access
                ELSE IF req.order_id \notin DOMAIN orders
                THEN [status |-> 404, detail |-> "Order not found"]
                ELSE [status |-> 200, detail |-> "Payment verified successfully"]
       IN
       /\ orders' = IF r.status = 200
                    THEN [orders EXCEPT ![req.order_id].payment_status = "paid"]
                    ELSE orders
       /\ responses' = Append(responses,
              Response("admin_verify_order_payment", r.status, r.detail,
                       0, 0, req.order_id))
    /\ UNCHANGED <<products, coupons, coupon_usages, order_items, payments,
                   users, sess, emails, started, cv, gw>>

\* Mutation: a refund also takes the order out of paid.
admin_refund_payment_unpaying(w, req) ==
    /\ sess[w] = Idle
    /\ payment_admin_requests < MaxPaymentAdminRequests
    /\ LET access == admin_access(req.admin_user, "payments.refund")
           r == IF access.status # 200 THEN access
                ELSE IF req.payment_id \notin DOMAIN payments
                THEN [status |-> 404, detail |-> "Payment not found"]
                ELSE [status |-> 200, detail |-> ""]
       IN
       /\ payments' = IF r.status = 200
                      THEN [payments EXCEPT
                               ![req.payment_id].payment_status = "refunded"]
                      ELSE payments
       /\ orders' = IF r.status = 200
                    THEN [orders EXCEPT
                             ![payments[req.payment_id].order_id].payment_status
                                 = "unpaid"]
                    ELSE orders
       /\ responses' = Append(responses,
              Response("admin_refund_payment", r.status, r.detail, 0, 0,
                       IF r.status = 200
                       THEN payments[req.payment_id].order_id ELSE 0))
    /\ UNCHANGED <<products, coupons, coupon_usages, order_items,
                   users, sess, emails, started, cv, gw>>

\* POST /admin/payments/{payment_id}/refund (admin.py 1261-1285): the
\* Payment row is marked refunded and committed; the gateway is not called
\* and the order is not touched.
admin_refund_payment(w, req) ==
    /\ sess[w] = Idle
    /\ payment_admin_requests < MaxPaymentAdminRequests
    /\ LET access == admin_access(req.admin_user, "payments.refund")
           r == IF access.status # 200 THEN access
                ELSE IF req.payment_id \notin DOMAIN payments
                THEN [status |-> 404, detail |-> "Payment not found"]
                ELSE [status |-> 200, detail |-> ""]
       IN
       /\ payments' = IF r.status = 200
                      THEN [payments EXCEPT
                               ![req.payment_id].payment_status = "refunded"]
                      ELSE payments
       /\ responses' = Append(responses,
              Response("admin_refund_payment", r.status, r.detail, 0, 0,
                       IF r.status = 200
                       THEN payments[req.payment_id].order_id ELSE 0))
    /\ UNCHANGED <<products, coupons, coupon_usages, orders, order_items,
                   users, sess, emails, started, cv, gw>>

\* ----------------------------------------------------------- initial state
\* The catalog: product 1 has a selling price and two units in stock,
\* product 2 has no selling price (0), sells at its mrp and has one unit
\* left, product 3 was deactivated.
InitProducts ==
    [p \in ProductIds |->
        CASE p = 1 -> [mrp |-> 199900, selling_price |-> 149900,
                       stock_quantity |-> 2, is_active |-> TRUE]
          [] p = 2 -> [mrp |-> 50000, selling_price |-> 0,
                       stock_quantity |-> 1, is_active |-> TRUE]
          [] p = 3 -> [mrp |-> 30000, selling_price |-> 20000,
                       stock_quantity |-> 2, is_active |-> FALSE]]

InitUsers ==
    [u \in UserIds |-> [email |-> IF u = 1 THEN "u1@x" ELSE "u2@x",
                        address |-> "none", is_guest |-> FALSE]]

\* A Coupon row "NEW99" as the schema defaults leave it (coupon.py 10-39).
BaseCoupon ==
    [id |-> CouponId, code |-> "NEW99", coupon_type |-> "percentage",
     discount_value |-> 10, maximum_discount |-> None,
     usage_limit |-> None, usage_count |-> 0, per_user_limit |-> Some(1),
     valid_from |-> 0, valid_until |-> None,
     minimum_order_amount |-> None, is_active |-> TRUE]

InitDb(coupon_rows) ==
    /\ products = InitProducts
    /\ coupons \in {[c \in {CouponId} |-> row] : row \in coupon_rows}
    /\ coupon_usages = <<>>
    /\ orders = <<>>
    /\ order_items = <<>>
    /\ payments = <<>>
    /\ users = InitUsers
    /\ sess = [w \in Workers |-> Idle]
    /\ responses = <<>>
    /\ emails = {}
    /\ started = 0
    /\ gw = [orders |-> 0, calls |-> 0]

\* ------------------------------------------------------------------ inputs
Item(p, q) == [product_id |-> p, quantity |-> q]

OrderInputs(item_lists, codes, user_ids, methods) ==
    {[op |-> "create_order", items |-> items, coupon_code |-> code,
      user_id |-> u, payment_method |-> m,
      shipping |-> [email |-> IF u = 1 THEN "u1@x" ELSE "u2@x",
                    address |-> "addr"],
      now |-> 1] :
        items \in item_lists, code \in codes, u \in user_ids, m \in methods}

\* ------------------------------------------------- sequential order placing
\* One request at a time, any cart of up to two line items.
SeqItems == {Item(p, q) : p \in ProductIds \cup {4}, q \in {1, 2}}

SeqItemLists ==
    {<<>>} \cup {<<a>> : a \in SeqItems} \cup {<<a, b>> : a, b \in SeqItems}

SeqCoupons ==
    {[BaseCoupon EXCEPT !.coupon_type = "fixed", !.discount_value = 20000]}

SeqInputs == OrderInputs(SeqItemLists, {NULL, "new99"}, {1}, {"cod", "online"})

InitSeq == InitDb(SeqCoupons) /\ cv = None

NextSeq ==
    \/ \E inp \in SeqInputs : create_order_validate("w1", inp)
    \/ create_order("w1")

SpecSeq == InitSeq /\ [][NextSeq]_vars

\* ------------------------------------------- sequential coupon redemption
\* One request at a time by either user, the cart empty or one unit of
\* product 1, against a fixed coupon of 200 limited per user.
LimitCoupons ==
    {[BaseCoupon EXCEPT !.coupon_type = "fixed", !.discount_value = 20000,
                        !.per_user_limit = pl] : pl \in {Some(0), Some(1)}}

LimitInputs ==
    OrderInputs({<<>>, <<Item(1, 1)>>}, {NULL, "new99"}, UserIds, {"cod"})

InitLimit == InitDb(LimitCoupons) /\ cv = None

NextLimit ==
    \/ \E inp \in LimitInputs : create_order_validate("w1", inp)
    \/ create_order("w1")

SpecLimit == InitLimit /\ [][NextLimit]_vars

\* ------------------------------------------------ concurrent order placing
\* Two workers, each cart one unit of one product.
ConcCoupons ==
    {[BaseCoupon EXCEPT !.usage_limit = Some(1), !.per_user_limit = None],
     BaseCoupon}

ConcInputs ==
    OrderInputs({<<Item(1, 1)>>, <<Item(2, 1)>>}, {NULL, "NEW99"},
                UserIds, {"cod"})

Init == InitDb(ConcCoupons) /\ cv = None

Next ==
    \E w \in Workers :
        \/ \E inp \in ConcInputs : create_order_validate(w, inp)
        \/ create_order(w)

Spec == Init /\ [][Next]_vars

\* ------------------------------------------------- payment reconciliation
\* One request at a time, after user 1 placed order 1 for one unit of
\* product 1, cash on delivery or online: the client asks for gateway
\* orders, the gateway delivers webhook events.
PayInputs == OrderInputs({<<Item(1, 1)>>}, {NULL}, {1}, {"cod", "online"})

PaymentOrderInputs ==
    {[op |-> "create_payment_order", amount |-> 149900, order_id |-> o] :
        o \in {None, Some(1)}}

\* payload.payment.entity of an event: the gateway payment id, the gateway
\* order id, the internal_order_id note, the (absent) signature field.
WebhookEntities ==
    {[id |-> "pay_1", order_id |-> g, internal_order_id |-> n,
      signature |-> NULL] :
        g \in {None, Some(1)}, n \in {NULL, "1", "2"}}

\* Every payment.captured event, and one event of another type.
WebhookBodies ==
    {[event |-> "payment.captured", entity |-> en] : en \in WebhookEntities}
    \cup {[event |-> "payment.failed",
            entity |-> [id |-> "pay_1", order_id |-> Some(1),
                        internal_order_id |-> "1", signature |-> NULL]]}

\* Deliveries signed by the gateway with the shared secret.
WebhookRequests ==
    {[body |-> b, signature |-> Hmac(WebhookSecret, b)] : b \in WebhookBodies}

\* The state create_order leaves behind for a request of PayInputs.
InitPay ==
    /\ \E inp \in PayInputs :
          LET price == item_price(InitProducts[1]) IN
          /\ orders = <<order_row(1, inp, price, 0, price)>>
          /\ order_items = <<[order_id |-> 1, product_id |-> 1, quantity |-> 1,
                              price_at_purchase |-> price]>>
          /\ users = [InitUsers EXCEPT ![1].address = inp.shipping.address]
    /\ products = [InitProducts EXCEPT ![1].stock_quantity = @ - 1]
    /\ coupons = [c \in {CouponId} |-> BaseCoupon]
    /\ coupon_usages = <<>>
    /\ payments = <<>>
    /\ sess = [w \in Workers |-> Idle]
    /\ responses = <<Response("create_order", 200, "", 0, 0, 1)>>
    /\ emails = {}
    /\ started = 1
    /\ gw = [orders |-> 0, calls |-> 0]
    /\ cv = None

NextPay ==
    \/ \E inp \in PaymentOrderInputs : create_payment_order_lookup("w1", inp)
    \/ create_payment_order_commit("w1")
    \/ \E req \in WebhookRequests : payment_webhook_receive("w1", req)
    \/ payment_webhook("w1")

SpecPay == InitPay /\ [][NextPay]_vars

\* ------------------------------------------------------ webhook deliveries
\* One delivery at a time against the placed order of InitPay: every signed
\* event of the reconciliation above, a signed order.paid, a signed
\* payment.captured whose note is not a number, and deliveries without a signature, signed with a guessed
\* key, or carrying the gateway's signature of another body.
CapturedForOrder1 ==
    [event |-> "payment.captured",
     entity |-> [id |-> "pay_1", order_id |-> Some(1),
                 internal_order_id |-> "1", signature |-> NULL]]

NoteNotANumber ==
    [event |-> "payment.captured",
     entity |-> [id |-> "pay_1", order_id |-> Some(1),
                 internal_order_id |-> "abc", signature |-> NULL]]

OrderPaidForOrder1 == [CapturedForOrder1 EXCEPT !.event = "order.paid"]

VerifiedRequests ==
    {[body |-> b, signature |-> Hmac(WebhookSecret, b)] :
        b \in WebhookBodies \cup {NoteNotANumber, OrderPaidForOrder1}}

UnverifiedRequests ==
    {[body |-> CapturedForOrder1, signature |-> sig] :
        sig \in {None, Hmac("guess", CapturedForOrder1),
                 Hmac(WebhookSecret, NoteNotANumber)}}

HookRequests == VerifiedRequests \cup UnverifiedRequests

NextHook ==
    \/ \E req \in HookRequests : payment_webhook_receive("w1", req)
    \/ payment_webhook("w1")

SpecHook == InitPay /\ [][NextHook]_vars

\* --------------------------------------------------- checkout by anyone
\* One POST /orders at a time, by user 1 signed in or by a guest, with the
\* shipping email of user 1 or a new one, for a product in stock or a
\* missing one, with no coupon, the coupon NEW99 or an unknown code.
CheckoutRequests ==
    {[current_user |-> cu,
      order_in |-> [items |-> items, coupon_code |-> code,
                    payment_method |-> "cod",
                    shipping |-> [email |-> em, address |-> "addr"],
                    now |-> 1]] :
        cu \in {None, Some(1)}, em \in {"u1@x", "g@x"},
        items \in {<<Item(1, 1)>>, <<Item(4, 1)>>},
        code \in {NULL, "new99", "bad"}}

InitCheckout == InitDb(SeqCoupons) /\ cv = None

NextCheckout ==
    \/ \E req \in CheckoutRequests : orders_create_order_lookup("w1", req)
    \/ orders_create_order("w1")

SpecCheckout == InitCheckout /\ [][NextCheckout]_vars

\* ----------------------------------------------------- order then payment
\* One request at a time: user 1 orders one unit of product 1 cash on
\* delivery, with or without the coupon, and the gateway delivers signed
\* payment.captured events that name order 1 or order 2.
ShopInputs == OrderInputs({<<Item(1, 1)>>}, {NULL, "new99"}, {1}, {"cod"})

ShopRequests ==
    {[body |-> b, signature |-> Hmac(WebhookSecret, b)] :
        b \in {CapturedForOrder1,
               [CapturedForOrder1 EXCEPT !.entity.internal_order_id = "2"]}}

InitShop == InitDb(SeqCoupons) /\ cv = None

NextShop ==
    \/ \E inp \in ShopInputs : create_order_validate("w1", inp)
    \/ create_order("w1")
    \/ \E req \in ShopRequests : payment_webhook_receive("w1", req)
    \/ payment_webhook("w1")

SpecShop == InitShop /\ [][NextShop]_vars

\* ------------------------------------------------------- status changes
\* One request at a time against the placed order of InitPay: PATCH by a
\* superuser or a customer, the admin status and cancel endpoints by a super
\* admin, a staff member without orders.update, or a caller who is no admin;
\* each for order 1 or the missing order 2.
PatchRequests ==
    {[current_user |-> [id |-> 1, is_superuser |-> su], id |-> o,
      status |-> st, tracking_id |-> t] :
        su \in BOOLEAN, o \in {1, 2}, st \in OrderStatuses,
        t \in {NULL, "TRK1"}}

AdminUsers ==
    {None,
     Some([role |-> "super_admin", permissions |-> {}, is_active |-> TRUE]),
     Some([role |-> "staff", permissions |-> {"orders.read"},
           is_active |-> TRUE])}

AdminStatusRequests ==
    {[admin_user |-> a, order_id |-> o, status |-> st] :
        a \in AdminUsers, o \in {1, 2}, st \in OrderStatuses}

AdminCancelRequests ==
    {[admin_user |-> a, order_id |-> o, reason |-> "changed my mind"] :
        a \in AdminUsers, o \in {1, 2}}

NextStatus ==
    \/ \E req \in PatchRequests : orders_update_order_status("w1", req)
    \/ \E req \in AdminStatusRequests : admin_update_order_status("w1", req)
    \/ \E req \in AdminCancelRequests : admin_cancel_order("w1", req)

SpecStatus == InitPay /\ [][NextStatus]_vars

\* ----------------------------------------------------- concurrent checkout
\* Two workers serve POST /orders for one unit of product 1 with the coupon,
\* by user 1 signed in or by a guest, the shipping email that of user 1 or a
\* new one.
GuestRequests ==
    {[current_user |-> cu,
      order_in |-> [items |-> <<Item(1, 1)>>, coupon_code |-> "new99",
                    payment_method |-> "cod",
                    shipping |-> [email |-> em, address |-> "addr"],
                    now |-> 1]] :
        cu \in {None, Some(1)}, em \in {"u1@x", "g@x"}}

InitGuests == InitDb(SeqCoupons) /\ cv = None

NextGuests ==
    \E w \in Workers :
        \/ \E req \in GuestRequests : orders_create_order_lookup(w, req)
        \/ orders_create_order(w)

SpecGuests == InitGuests /\ [][NextGuests]_vars

\* ------------------------------------------------------- tracking an order
\* One request at a time against the placed order of InitPay, which belongs
\* to user 1 and ships to u1@x: by a guest, by user 1, by user 2, or by a
\* superuser; with the shipping email, another email, an empty header or no
\* header; for a path segment that normalizes to the stored order number or
\* to another one.
TrackUsers ==
    {None, Some([id |-> 1, is_superuser |-> FALSE]),
     Some([id |-> 2, is_superuser |-> FALSE]),
     Some([id |-> 2, is_superuser |-> TRUE])}

TrackRequests ==
    {[current_user |-> cu, x_user_email |-> em, order_number |-> n] :
        cu \in TrackUsers, em \in {NULL, "", "u1@x", "u2@x"},
        n \in {" ", " pr000001"}}

NextTrack == \E req \in TrackRequests : track_order("w1", req)

SpecTrack == InitPay /\ [][NextTrack]_vars

\* ------------------------------------------------ concurrent reconciliation
\* Two workers serve, for the placed order of InitPay, create-payment-order
\* calls of the client and deliveries of the gateway's payment.captured
\* event for that order.
RaceRequests == {[body |-> CapturedForOrder1,
                  signature |-> Hmac(WebhookSecret, CapturedForOrder1)]}

RacePaymentOrderInputs ==
    {[op |-> "create_payment_order", amount |-> 149900, order_id |-> Some(1)]}

NextRace ==
    \E w \in Workers :
        \/ \E inp \in RacePaymentOrderInputs : create_payment_order_lookup(w, inp)
        \/ create_payment_order_commit(w)
        \/ \E req \in RaceRequests : payment_webhook_receive(w, req)
        \/ payment_webhook(w)

SpecRace == InitPay /\ [][NextRace]_vars

\* ------------------------------------------------- concurrent redemption
\* Two workers serve POST /orders by user 1, signed in, for one unit of
\* product 1 with the coupon or without a code, the coupon carrying no
\* limit; a super admin cancels order 1, once.
RedeemCoupons ==
    {[BaseCoupon EXCEPT !.per_user_limit = None]}

RedeemRequests ==
    {[current_user |-> Some(1),
      order_in |-> [items |-> <<Item(1, 1)>>, coupon_code |-> code,
                    payment_method |-> "cod",
                    shipping |-> [email |-> "u1@x", address |-> "addr"],
                    now |-> 1]] :
        code \in {NULL, "new99"}}

RedeemAdmin ==
    Some([role |-> "super_admin", permissions |-> {}, is_active |-> TRUE])

InitRedeem == InitDb(RedeemCoupons) /\ cv = None

NextRedeem ==
    \/ \E w \in Workers :
          \/ \E req \in RedeemRequests : orders_create_order_lookup(w, req)
          \/ orders_create_order_service(w)
          \/ create_order(w)
    \/ /\ status_requests = 0
       /\ admin_cancel_order("w1", [admin_user |-> RedeemAdmin, order_id |-> 1,
                                    reason |-> "changed my mind"])

SpecRedeem == InitRedeem /\ [][NextRedeem]_vars

\* ------------------------------------------------- orders and the catalog
\* One request at a time: user 1 orders one unit of product 1 with or
\* without the coupon, a super admin changes the prices or the stock of
\* product 1, marks order 1 shipped or cancels it, and the gateway delivers
\* payment.captured for order 1.
CatalogInputs == OrderInputs({<<Item(1, 1)>>}, {NULL, "new99"}, {1}, {"cod"})

CatalogAdmin ==
    Some([role |-> "super_admin", permissions |-> {}, is_active |-> TRUE])

ProductUpdates ==
    {[admin_user |-> a, product_id |-> p, mrp |-> f[1], selling_price |-> f[2],
      stock_quantity |-> f[3], is_active |-> None] :
        a \in {CatalogAdmin}, p \in {1},
        f \in {<<Some(99900), Some(79900), None>>,
               <<None, Some(0), Some(5)>>}}

NextCatalog ==
    \/ \E inp \in CatalogInputs : create_order_validate("w1", inp)
    \/ create_order("w1")
    \/ \E req \in ProductUpdates : admin_update_product("w1", req)
    \/ /\ status_requests = 0
       /\ \/ admin_update_order_status("w1",
                 [admin_user |-> CatalogAdmin, order_id |-> 1,
                  status |-> "shipped"])
          \/ admin_cancel_order("w1",
                 [admin_user |-> CatalogAdmin, order_id |-> 1,
                  reason |-> "changed my mind"])
    \/ /\ gw.calls = 0
       /\ payment_webhook_receive("w1",
              [body |-> CapturedForOrder1,
               signature |-> Hmac(WebhookSecret, CapturedForOrder1)])
    \/ payment_webhook("w1")

SpecCatalog == InitSeq /\ [][NextCatalog]_vars

\* ------------------------------------------------- quantities and coupons
\* One request at a time: user 1 orders -1, 0 or 1 unit of product 1, with
\* or without the coupon, which is 150 percent without a cap or a fixed 200,
\* without a per-user limit.
QtyCoupons ==
    {[BaseCoupon EXCEPT !.discount_value = 150, !.per_user_limit = None],
     [BaseCoupon EXCEPT !.coupon_type = "fixed", !.discount_value = 20000,
                        !.per_user_limit = None]}

QtyInputs ==
    OrderInputs({<<Item(1, q)>> : q \in {-1, 0, 1}}, {NULL, "new99"}, {1},
                {"cod"})

InitQty == InitDb(QtyCoupons) /\ cv = None

NextQty ==
    \/ \E inp \in QtyInputs : create_order_validate("w1", inp)
    \/ create_order("w1")

SpecQty == InitQty /\ [][NextQty]_vars

\* ------------------------------------------------------- after the payment
\* One request at a time against the placed order of InitPay: the gateway
\* delivers payment.captured for order 1, the client asks once for a
\* gateway order, a super admin verifies the payment of order 1, refunds
\* Payment row 1, and once cancels order 1 or marks it delivered.
PaidAdmin ==
    Some([role |-> "super_admin", permissions |-> {}, is_active |-> TRUE])

NextPaid ==
    \/ payment_webhook_receive("w1",
           [body |-> CapturedForOrder1,
            signature |-> Hmac(WebhookSecret, CapturedForOrder1)])
    \/ payment_webhook("w1")
    \/ /\ gw.orders = 0
       /\ \E inp \in RacePaymentOrderInputs :
              create_payment_order_lookup("w1", inp)
    \/ create_payment_order_commit("w1")
    \/ admin_verify_order_payment("w1", [admin_user |-> PaidAdmin,
                                         order_id |-> 1])
    \/ admin_refund_payment("w1", [admin_user |-> PaidAdmin, payment_id |-> 1])
    \/ /\ status_requests = 0
       /\ \/ admin_cancel_order("w1", [admin_user |-> PaidAdmin,
                                       order_id |-> 1,
                                       reason |-> "changed my mind"])
          \/ admin_update_order_status("w1", [admin_user |-> PaidAdmin,
                                              order_id |-> 1,
                                              status |-> "delivered"])

SpecPaid == InitPay /\ [][NextPaid]_vars

\* ------------------------------------------------ the validator on its own
\* validate_and_apply_coupon applied once to arguments drawn from: a coupon
\* table holding one row, the caller's earlier usages, a subtotal, a code.
CvDiscounts ==
    {<<"percentage", 10>>, <<"percentage", 150>>, <<"fixed", 20000>>}

CvCouponRows ==
    {[id |-> CouponId, code |-> "NEW99", coupon_type |-> d[1],
      discount_value |-> d[2], maximum_discount |-> md,
      usage_limit |-> ul, usage_count |-> uc, per_user_limit |-> pl,
      valid_from |-> vf, valid_until |-> vu,
      minimum_order_amount |-> mo, is_active |-> ia] :
        d \in CvDiscounts,
        md \in {None, Some(0), Some(20000)},
        ul \in {None, Some(0), Some(1)}, uc \in {0, 1},
        pl \in {None, Some(0), Some(1)},
        vf \in {1, 2}, vu \in {None, Some(0), Some(1)},
        mo \in {None, Some(0), Some(200000)}, ia \in BOOLEAN}

UsageRows(n) ==
    [i \in 1..n |-> [coupon_id |-> CouponId, user_id |-> 1, order_id |-> i,
                     discount_applied |-> 10]]

CvInputs ==
    {[coupon_code |-> code, user_id |-> 1, subtotal |-> st,
      table |-> [c \in {CouponId} |-> row], usages |-> UsageRows(n),
      now |-> 1, result |-> None] :
        code \in {NULL, "new99", "bad"}, st \in {0, 10000, 300000},
        row \in CvCouponRows, n \in {0, 1}}

InitCoupon == InitDb(SeqCoupons) /\ cv \in CvInputs

apply_coupon ==
    /\ cv # None
    /\ cv.result = None
    /\ cv' = [cv EXCEPT !.result =
                 Some(validate_and_apply_coupon(cv.coupon_code, cv.user_id,
                          cv.subtotal, cv.table, cv.usages, cv.now))]
    /\ UNCHANGED <<db, sess, responses, emails, started, gw>>

SpecCoupon == InitCoupon /\ [][apply_coupon]_vars

\* ================================================================ claims
RowsOf(table, oid) == SelectSeq(table, LAMBDA row : row.order_id = oid)

Successes == {i \in DOMAIN responses :
                 responses[i].op = "create_order" /\ responses[i].status = 200}

\* The unit price the catalog holds for a product: the selling price when
\* one is set (the column is NOT NULL, so "set" is "non-zero"), else the mrp.
CatalogUnitPrice(p) ==
    IF products[p].selling_price # 0
    THEN products[p].selling_price ELSE products[p].mrp

RECURSIVE CatalogTotal(_)
CatalogTotal(items) ==
    IF items = <<>> THEN 0
    ELSE Head(items).quantity * CatalogUnitPrice(Head(items).product_id)
         + CatalogTotal(Tail(items))

\* C1: once create_order has persisted an order, its total_amount is the sum
\* over the submitted line items of quantity x the catalog's unit price, and
\* its OrderItem rows are the submitted line items at that unit price.
C1_TotalFromCatalog ==
    \A w \in Workers :
        LET s == sess[w] IN
        /\ s.pc \in {"update_stock", "commit_items", "track_usage",
                     "commit_usage", "send_email"}
           => orders[s.order_id].total_amount = CatalogTotal(s.input.items)
        /\ s.pc \in {"track_usage", "commit_usage", "send_email"}
           => RowsOf(order_items, s.order_id) =
                  [i \in DOMAIN s.input.items |->
                      [order_id |-> s.order_id,
                       product_id |-> s.input.items[i].product_id,
                       quantity |-> s.input.items[i].quantity,
                       price_at_purchase |->
                           CatalogUnitPrice(s.input.items[i].product_id)]]

\* C1 witness: two units of the product selling at 1499 were ordered without
\* a coupon: total 2998, discount 0, final 2998.
C1_Witness ==
    \E i \in Successes :
        LET o == orders[responses[i].order_id] IN
        /\ o.total_amount = 299800 /\ o.discount_amount = 0
        /\ o.final_amount = 299800
        /\ RowsOf(order_items, o.id) =
               <<[order_id |-> o.id, product_id |-> 1, quantity |-> 2,
                  price_at_purchase |-> 149900]>>

\* A step that answers a request with an error.
Rejects ==
    /\ Len(responses') = Len(responses) + 1
    /\ responses'[Len(responses')].status # 200

\* C2: a create_order that is rejected (missing or inactive product,
\* quantity above stock, coupon refused) leaves every table as it was.
C2_RejectWritesNothing ==
    [][Rejects => /\ orders' = orders /\ order_items' = order_items
                  /\ products' = products /\ coupon_usages' = coupon_usages
                  /\ coupons' = coupons]_vars

\* C2 witness: a request was rejected at its second line item.
C2_Witness ==
    \E i \in DOMAIN responses :
        /\ responses[i].status = 400 /\ responses[i].line = 2
        /\ responses[i].detail = "Insufficient stock"

\* C3: no Product.stock_quantity is ever negative.
C3_StockNeverNegative ==
    \A p \in DOMAIN products : products[p].stock_quantity >= 0

\* Responses that answer a request for one unit of product p (every cart of
\* the concurrent specification holds one unit of one product).
OneUnitOf(r, p) ==
    \/ /\ r.status = 200
       /\ RowsOf(order_items, r.order_id) =
              <<[order_id |-> r.order_id, product_id |-> p, quantity |-> 1,
                 price_at_purchase |-> CatalogUnitPrice(p)]>>
    \/ /\ r.status = 400 /\ r.detail = "Insufficient stock" /\ r.product_id = p

\* C4: product 2 starts with one unit; when two requests for one unit each
\* have been answered, under any interleaving, exactly one was accepted, the
\* other was rejected for insufficient stock, and the stock is 0.
C4_ExactlyOneOrderWins ==
    ( /\ InitProducts[2].stock_quantity = 1
      /\ started = 2 /\ Len(responses) = 2
      /\ \A i \in DOMAIN responses : OneUnitOf(responses[i], 2) )
    => /\ Cardinality({i \in DOMAIN responses : responses[i].status = 200}) = 1
       /\ Cardinality({i \in DOMAIN responses : responses[i].status = 400}) = 1
       /\ products[2].stock_quantity = 0

\* The stand-alone validator call has returned an accepted coupon.
CvAccepted ==
    /\ cv # None /\ cv.result # None
    /\ Val(cv.result).status = 200 /\ Val(cv.result).coupon # None

CvCoupon == cv.table[CouponId]

\* C5: an accepted fixed coupon gives min(discount_value, subtotal); the
\* final amount is never negative, and is 0 when the coupon's value exceeds
\* the subtotal.
C5_FixedDiscountClamped ==
    (CvAccepted /\ CvCoupon.coupon_type = "fixed")
    => LET r == Val(cv.result) IN
       /\ r.discount_amount =
              IF CvCoupon.discount_value <= cv.subtotal
              THEN CvCoupon.discount_value ELSE cv.subtotal
       /\ r.final_amount = cv.subtotal - r.discount_amount
       /\ r.final_amount >= 0
       /\ CvCoupon.discount_value > cv.subtotal
          => r.discount_amount = cv.subtotal /\ r.final_amount = 0

\* C5 witness: a fixed coupon of 200 was accepted on a subtotal of 100.
C5_Witness ==
    /\ CvAccepted /\ CvCoupon.coupon_type = "fixed"
    /\ CvCoupon.discount_value = 20000 /\ cv.subtotal = 10000
    /\ Val(cv.result).discount_amount = 10000

\* C6: an accepted percentage coupon with a non-null maximum_discount gives
\* min(subtotal * discount_value / 100, maximum_discount).
C6_PercentageCapped ==
    (CvAccepted /\ CvCoupon.coupon_type = "percentage"
        /\ CvCoupon.maximum_discount # None)
    => LET raw == (cv.subtotal * CvCoupon.discount_value) \div 100
           cap == Val(CvCoupon.maximum_discount)
       IN  /\ Val(cv.result).discount_amount = (IF raw <= cap THEN raw ELSE cap)
           /\ Val(cv.result).discount_amount <= cap

\* The orders whose create_order call has returned them to the caller.
Accepted == {responses[i].order_id : i \in Successes}

\* The accepted orders of a user that carry a coupon's code.
OrdersWithCoupon(u, code) ==
    {i \in Accepted : orders[i].user_id = u /\ orders[i].coupon_code = code}

\* C7: with requests served one after another, a user never has more orders
\* carrying a coupon than the coupon's per_user_limit.
C7_PerUserLimitSequential ==
    \A c \in DOMAIN coupons : \A u \in UserIds :
        coupons[c].per_user_limit # None
        => Cardinality(OrdersWithCoupon(u, coupons[c].code))
               <= Val(coupons[c].per_user_limit)

\* The accepted orders that redeemed a coupon: they carry its code and got a
\* discount.
Redeemed(code) ==
    {i \in Accepted :
        orders[i].coupon_code = code /\ orders[i].discount_amount > 0}

\* C8: under any interleaving, the orders redeeming a coupon never outnumber
\* its usage_limit, nor those of one user its per_user_limit.
C8_NoOverRedemption ==
    \A c \in DOMAIN coupons :
        /\ coupons[c].usage_limit # None
           => Cardinality(Redeemed(coupons[c].code)) <= Val(coupons[c].usage_limit)
        /\ coupons[c].per_user_limit # None
           => \A u \in UserIds :
                 Cardinality({i \in Redeemed(coupons[c].code) :
                                 orders[i].user_id = u})
                     <= Val(coupons[c].per_user_limit)

\* The verdict the six rules give when taken in their stated order, a limit
\* or minimum being in force whenever it is non-null; "" when all pass.
C9_FirstFailingRule ==
    LET c == CvCoupon
        used == Cardinality({i \in DOMAIN cv.usages :
                    cv.usages[i].coupon_id = c.id
                    /\ cv.usages[i].user_id = cv.user_id})
    IN  IF \A k \in DOMAIN cv.table : cv.table[k].code # Upper(cv.coupon_code)
        THEN "Invalid coupon code"
        ELSE IF ~c.is_active THEN "Coupon is not active"
        ELSE IF cv.now < c.valid_from THEN "Coupon is not yet valid"
        ELSE IF c.valid_until # None /\ cv.now > Val(c.valid_until)
             THEN "Coupon has expired"
        ELSE IF c.minimum_order_amount # None
                /\ ~(cv.subtotal >= Val(c.minimum_order_amount))
             THEN "Minimum order amount required for this coupon"
        ELSE IF c.usage_limit # None /\ ~(c.usage_count < Val(c.usage_limit))
             THEN "Coupon usage limit exceeded"
        ELSE IF c.per_user_limit # None /\ ~(used < Val(c.per_user_limit))
             THEN "You have already used this coupon the maximum allowed times"
        ELSE ""

\* C9: for a given coupon code the validator reports the first failing rule
\* in the order exists, active, validity window, minimum order amount,
\* usage limit, per-user limit, and returns a discount only if all six pass.
C9_RulesInOrder ==
    (cv # None /\ cv.result # None /\ cv.coupon_code # NULL)
    => /\ Val(cv.result).detail = C9_FirstFailingRule
       /\ Val(cv.result).status = 200 <=> C9_FirstFailingRule = ""

\* A worker whose webhook has just committed for a resolved order.
WebhookCommitted(w) == sess[w].pc = "webhook_email"

\* C10: right after a signature-verified payment.captured webhook that
\* resolved to an order has committed, the order is paid and the order has
\* exactly one Payment row, with status success and the event's gateway
\* payment id and gateway order id; this holds for a first delivery and for
\* the identical event delivered again after the first has completed.
C10_WebhookMarksPaidOnce ==
    \A w \in Workers :
        WebhookCommitted(w)
        => LET s == sess[w]
               rows == RowsOf(payments, s.order_id)
           IN  /\ orders[s.order_id].payment_status = "paid"
               /\ Len(rows) = 1
               /\ rows[1].payment_status = "success"
               /\ rows[1].payment_id = s.body.entity.id
               /\ rows[1].razorpay_order_id = s.body.entity.order_id

\* C10 witness: the webhook has committed for an event that an earlier,
\* completed delivery of the identical event had already resolved to the
\* same order.
C10_Witness ==
    \E w \in Workers :
        /\ WebhookCommitted(w)
        /\ \E i \in DOMAIN responses :
              /\ responses[i].op = "payment_webhook"
              /\ responses[i].status = 200
              /\ responses[i].order_id = sess[w].order_id
              /\ responses[i].event = sess[w].body

\* The step appends a response of a handler, with a status.
Answers(op, code) ==
    /\ Len(responses') = Len(responses) + 1
    /\ responses'[Len(responses')].op = op
    /\ responses'[Len(responses')].status = code

\* C11: a webhook delivery with no signature, or whose signature does not
\* verify against the shared secret over its body, ends in one step with a
\* 400 response, the handler finished, and every table as it was.
C11_UnverifiedWebhookRejected ==
    [][\A req \in UnverifiedRequests :
          payment_webhook_receive("w1", req)
          => /\ Answers("payment_webhook", 400)
             /\ sess' = sess
             /\ db' = db /\ emails' = emails]_vars

\* C11 witness: a delivery was rejected for a missing signature and one for
\* an invalid signature, and the order they name is still unpaid with no
\* Payment row.
C11_Witness ==
    /\ \E i \in DOMAIN responses :
          responses[i].status = 400 /\ responses[i].detail = "Missing signature"
    /\ \E i \in DOMAIN responses :
          /\ responses[i].status = 400
          /\ responses[i].detail = "Invalid signature"
          /\ responses[i].event = CapturedForOrder1
    /\ orders[1].payment_status = "unpaid"
    /\ payments = <<>>

\* C12: a webhook delivery whose signature verifies is never answered with
\* an error: the step that receives it either goes on to the commit or
\* answers 200 with every table as it was.
C12_VerifiedWebhookAcknowledged ==
    [][\A req \in VerifiedRequests :
          payment_webhook_receive("w1", req)
          => \/ responses' = responses
             \/ /\ Answers("payment_webhook", 200)
                /\ db' = db /\ emails' = emails]_vars

C14_RejectedCheckoutWritesNothing ==
    ( /\ sess["w1"] = Idle
      /\ responses # <<>>
      /\ \A i \in DOMAIN responses :
            responses[i].op = "create_order" /\ responses[i].status # 200 )
    => /\ users = InitUsers
       /\ orders = <<>> /\ order_items = <<>>
       /\ products = InitProducts
       /\ coupon_usages = <<>>
       /\ \A c \in DOMAIN coupons : coupons[c].usage_count = 0

\* The value of a list of OrderItem rows: the sum of quantity x price.
RECURSIVE ItemsValue(_)
ItemsValue(rows) ==
    IF rows = <<>> THEN 0
    ELSE Head(rows).quantity * Head(rows).price_at_purchase
         + ItemsValue(Tail(rows))

\* The units of a product that a list of OrderItem rows holds.
RECURSIVE UnitsOf(_, _)
UnitsOf(rows, p) ==
    IF rows = <<>> THEN 0
    ELSE (IF Head(rows).product_id = p THEN Head(rows).quantity ELSE 0)
         + UnitsOf(Tail(rows), p)

\* C15: in every committed state an Order row is there together with its
\* OrderItem rows (they add up to its total), the stock taken from each
\* product is the units in the persisted items, and an order with a discount
\* has its CouponUsage row and is counted in usage_count.
C15_OrderCommittedWhole ==
    /\ \A o \in DOMAIN orders :
          /\ ItemsValue(RowsOf(order_items, o)) = orders[o].total_amount
          /\ orders[o].discount_amount > 0 => RowsOf(coupon_usages, o) # <<>>
    /\ \A p \in DOMAIN products :
          InitProducts[p].stock_quantity - products[p].stock_quantity
              = UnitsOf(order_items, p)
    /\ \A c \in DOMAIN coupons :
          coupons[c].usage_count = Len(coupon_usages)

\* C16: every persisted Order has final_amount = total_amount -
\* discount_amount, order_status placed, and payment_status paid for the
\* payment method "online" and unpaid for "cod"; while its create_order call
\* runs, its total_amount is the subtotal the call computed and its
\* discount_amount the discount the validator returned.
C16_OrderHeader ==
    /\ \A o \in DOMAIN orders :
          /\ orders[o].final_amount =
                 orders[o].total_amount - orders[o].discount_amount
          /\ orders[o].order_status = "placed"
          /\ orders[o].payment_type = "online" => orders[o].payment_status = "paid"
          /\ orders[o].payment_type = "cod" => orders[o].payment_status = "unpaid"
    /\ \A w \in Workers :
          sess[w].pc \in {"update_stock", "commit_items", "track_usage",
                          "commit_usage", "send_email"}
          => /\ orders[sess[w].order_id].total_amount = sess[w].calculated_total
             /\ orders[sess[w].order_id].discount_amount = sess[w].discount_amount

\* C16 witness: an online order of 1499 with the coupon of 200 was returned:
\* final 1299, paid, placed; and a cod order is unpaid.
C16_Witness ==
    /\ \E i \in Successes :
          LET o == orders[responses[i].order_id] IN
          /\ o.total_amount = 149900 /\ o.discount_amount = 20000
          /\ o.final_amount = 129900
          /\ o.payment_type = "online" /\ o.payment_status = "paid"
          /\ o.order_status = "placed"
    /\ \E i \in Successes :
          LET o == orders[responses[i].order_id] IN
          o.payment_type = "cod" /\ o.payment_status = "unpaid"

\* The step is the email step of a handler and no email went out.
EmailFails(w, pc) ==
    sess[w].pc = pc /\ sess'[w] = Idle /\ emails' = emails

\* C17: a confirmation email that is not sent fails nothing and undoes
\* nothing.  In create_order the tables stay as committed (the order, its
\* items, the coupon usage) and the order is returned with 200; in the
\* webhook the order stays paid and the delivery is answered 200.
C17_EmailFailureIsHarmless ==
    [][/\ EmailFails("w1", "send_email")
          => /\ db' = db
             /\ Answers("create_order", 200)
             /\ responses'[Len(responses')].order_id = sess["w1"].order_id
             /\ RowsOf(order_items', sess["w1"].order_id) # <<>>
             /\ orders'[sess["w1"].order_id].discount_amount > 0
                => RowsOf(coupon_usages', sess["w1"].order_id) # <<>>
       /\ EmailFails("w1", "webhook_email")
          => /\ db' = db
             /\ Answers("payment_webhook", 200)
             /\ orders'[sess["w1"].order_id].payment_status = "paid"]_vars

\* C17 witness: order 1 was returned with 200 and its payment.captured
\* webhook acknowledged with 200 although no email went out for it; the
\* order is there with its item and coupon usage, and paid.
C17_Witness ==
    /\ sess["w1"] = Idle
    /\ \E i \in Successes : responses[i].order_id = 1
    /\ \E i \in DOMAIN responses :
          /\ responses[i].op = "payment_webhook" /\ responses[i].status = 200
          /\ responses[i].order_id = 1
    /\ \A e \in emails : e.order_id # 1
    /\ orders[1].payment_status = "paid"
    /\ orders[1].discount_amount > 0
    /\ RowsOf(order_items, 1) # <<>> /\ RowsOf(coupon_usages, 1) # <<>>

\* The transitions of order_status the specification allows.
AllowedTransitions ==
    {<<"placed", "shipped">>, <<"shipped", "delivered">>,
     <<"placed", "cancelled">>, <<"shipped", "cancelled">>,
     <<"delivered", "returned">>}

\* C18: over any sequence of status-changing requests an order's
\* order_status changes only along the allowed transitions.
C18_StatusTransitionsAllowed ==
    [][\A o \in DOMAIN orders :
          orders'[o].order_status # orders[o].order_status
          => <<orders[o].order_status, orders'[o].order_status>>
                 \in AllowedTransitions]_vars

\* C19: PATCH /orders/{id}/status by a caller who is no superuser is
\* answered 403 with the tables as they were; by a superuser for an existing
\* order it is answered 200 with the order's order_status the requested one
\* and its tracking_id the supplied one.
C19_PatchAdminOnlyAndEffective ==
    [][\A req \in PatchRequests :
          orders_update_order_status("w1", req)
          => /\ ~req.current_user.is_superuser
                => Answers("update_order_status", 403) /\ db' = db
             /\ (req.current_user.is_superuser /\ req.id \in DOMAIN orders)
                => /\ Answers("update_order_status", 200)
                   /\ orders'[req.id].order_status = req.status
                   /\ req.tracking_id # NULL
                      => orders'[req.id].tracking_id = req.tracking_id]_vars

\* C20: a step that commits a change of order_status to shipped, delivered
\* or cancelled does not end the handler: the handler goes on to attempt
\* the notification email for the order.
C20_StatusChangeNotified ==
    [][\A o \in DOMAIN orders :
          ( /\ orders'[o].order_status # orders[o].order_status
            /\ orders'[o].order_status \in {"shipped", "delivered", "cancelled"} )
          => \E w \in Workers : sess'[w] # Idle]_vars

\* C21: under any interleaving of checkouts there is at most one User row
\* per email and every Order's user_id names a User row.  The user a
\* checkout hands to the service is the caller when signed in, whatever the
\* shipping email; for a guest it is the user holding the shipping email,
\* the one found or a new one with is_guest set.
C21_OrdersHaveOneUserPerEmail ==
    [][/\ \A u1, u2 \in DOMAIN users' :
             users'[u1].email = users'[u2].email => u1 = u2
       /\ \A o \in DOMAIN orders' : orders'[o].user_id \in DOMAIN users'
       /\ \A w \in Workers :
             /\ \A req \in GuestRequests :
                   (req.current_user # None /\ orders_create_order_lookup(w, req))
                   => sess'[w].input.user_id = Val(req.current_user)
             /\ (sess[w].pc = "commit_user" /\ sess'[w].pc = "call_service")
                => LET u == sess'[w].input.user_id IN
                   /\ u \in DOMAIN users'
                   /\ users'[u].email = sess[w].order_in.shipping.email
                   /\ u \notin DOMAIN users => users'[u].is_guest
             /\ (sess[w].pc = "insert_order" /\ sess'[w].pc = "update_stock")
                => orders'[sess'[w].order_id].user_id = sess[w].input.user_id]_vars

\* C21 witness: two guest checkouts with the new email ran concurrently:
\* both found no user, one created the guest user and its order was
\* returned, the other failed; the email has one User row.
C21_Witness ==
    /\ \E i \in DOMAIN responses :
          responses[i].op = "create_order" /\ responses[i].status = 500
    /\ \E i \in Successes :
          LET u == orders[responses[i].order_id].user_id IN
          /\ u \notin DOMAIN InitUsers
          /\ users[u].email = "g@x" /\ users[u].is_guest
    /\ Cardinality({u \in DOMAIN users : users[u].email = "g@x"}) = 1

\* C22: a tracking request without a signed-in user is answered with the
\* order's details only if its X-User-Email header equals the order's
\* shipping email, and one by a signed-in user who is no superuser only for
\* an order of that user.
C22_TrackingNeedsMatchingEmail ==
    [][\A req \in TrackRequests :
          (track_order("w1", req) /\ Answers("track_order", 200))
          => LET order == orders[responses'[Len(responses')].order_id] IN
             /\ req.current_user = None
                => req.x_user_email = order.shipping_email
             /\ (req.current_user # None
                 /\ ~Val(req.current_user).is_superuser)
                => order.user_id = Val(req.current_user).id]_vars

\* C23: a verified payment.captured delivery whose note names an existing
\* order goes on to the commit for that order; any other one, the note
\* absent or naming no existing order, goes on to the commit for the order
\* of a stored Payment row whose gateway order id is the event's, whenever
\* such a row exists.
C23_ResolvesByNoteThenGatewayOrder ==
    [][\A req \in WebhookRequests :
          (req.body.event = "payment.captured"
           /\ payment_webhook_receive("w1", req))
          => LET entity == req.body.entity
                 note == IF entity.internal_order_id = NULL
                         THEN None ELSE ParseInt(entity.internal_order_id)
                 stored == IF entity.order_id = None THEN {}
                           ELSE {payments[i].order_id :
                                    i \in payments_of_gateway_order(
                                              payments, entity.order_id)}
             IN  IF note # None /\ Val(note) \in DOMAIN orders
                 THEN /\ sess'["w1"].pc = "webhook_commit"
                      /\ sess'["w1"].order_id = Val(note)
                 ELSE stored \cap DOMAIN orders # {}
                      => /\ sess'["w1"].pc = "webhook_commit"
                         /\ sess'["w1"].order_id \in stored]_vars

\* C24: however create-payment-order calls and payment.captured deliveries
\* for an order interleave, the order has at most one Payment row, and once
\* a delivery for it has been answered its payment_status is paid.
C24_OnePaymentRowPerOrder ==
    \A o \in DOMAIN orders :
        /\ Cardinality(payments_of_order(payments, o)) <= 1
        /\ (\E i \in DOMAIN responses :
               /\ responses[i].op = "payment_webhook"
               /\ responses[i].status = 200
               /\ responses[i].order_id = o)
           => orders[o].payment_status = "paid"

\* C25: a coupon is accepted only if every limit it carries, zero included,
\* leaves room: usage_count below a non-null usage_limit, the user's
\* CouponUsage rows fewer than a non-null per_user_limit, and the subtotal
\* not below a non-null minimum_order_amount.
C25_ZeroIsALimit ==
    CvAccepted
    => /\ CvCoupon.usage_limit # None
          => CvCoupon.usage_count < Val(CvCoupon.usage_limit)
       /\ CvCoupon.per_user_limit # None
          => user_usage_count(CvCoupon.id, cv.user_id, cv.usages)
                 < Val(CvCoupon.per_user_limit)
       /\ CvCoupon.minimum_order_amount # None
          => cv.subtotal >= Val(CvCoupon.minimum_order_amount)

\* C26: a coupon's usage_count changes only by +1, in the step of a
\* create_order that applied the coupon with a positive discount and that
\* adds exactly one CouponUsage row for that coupon, user and order; no
\* stored CouponUsage row is removed or altered by any step, cancellation
\* and status changes included; and an order placed without a coupon code
\* has discount 0, its request changing no coupon state.
C26_UsageCountOnlyGrowsWithUsage ==
    [][/\ \A c \in DOMAIN coupons :
             coupons'[c].usage_count # coupons[c].usage_count
             => /\ coupons'[c].usage_count = coupons[c].usage_count + 1
                /\ \E w \in Workers :
                      /\ sess[w].pc = "commit_usage" /\ sess'[w].pc = "send_email"
                      /\ sess[w].coupon = Some(c)
                      /\ sess[w].discount_amount > 0
                      /\ coupon_usages' = Append(coupon_usages,
                             [coupon_id |-> c, user_id |-> sess[w].input.user_id,
                              order_id |-> sess[w].order_id,
                              discount_applied |-> sess[w].discount_amount])
       /\ Len(coupon_usages') >= Len(coupon_usages)
       /\ SubSeq(coupon_usages', 1, Len(coupon_usages)) = coupon_usages
       /\ \A o \in DOMAIN orders' :
             orders'[o].coupon_code = NULL => orders'[o].discount_amount = 0
       /\ \A w \in Workers :
             (sess[w] # Idle /\ sess'[w] # sess[w] /\ "input" \in DOMAIN sess[w]
              /\ sess[w].input.coupon_code = NULL)
             => coupons' = coupons /\ coupon_usages' = coupon_usages]_vars

\* C27: the price_at_purchase and quantity of a stored OrderItem and the
\* total, discount and final amounts of a stored Order are the same after
\* every step: product updates by the admin, further orders, status changes
\* and webhook deliveries.
C27_PastOrdersKeepTheirAmounts ==
    [][/\ \A i \in DOMAIN order_items :
             /\ i \in DOMAIN order_items'
             /\ order_items'[i] = order_items[i]
       /\ \A o \in DOMAIN orders :
             /\ o \in DOMAIN orders'
             /\ orders'[o].total_amount = orders[o].total_amount
             /\ orders'[o].discount_amount = orders[o].discount_amount
             /\ orders'[o].final_amount = orders[o].final_amount]_vars

\* C27 witness: order 1 sold product 1 at 1499 with the coupon's discount;
\* since then the admin has repriced the product, a second order was placed
\* at the new price, and order 1 was paid through the webhook and its status
\* changed.
C27_Witness ==
    /\ Len(orders) = 2 /\ Len(order_items) = 2
    /\ order_items[1].price_at_purchase = 149900
    /\ orders[1].total_amount = 149900
    /\ orders[1].discount_amount = 20000
    /\ orders[1].final_amount = 129900
    /\ products[1].selling_price = 79900
    /\ order_items[2].price_at_purchase = 79900
    /\ orders[1].payment_status = "paid"
    /\ orders[1].order_status # "placed"

\* C28: every stored Order has 0 <= discount_amount <= total_amount and
\* final_amount >= 0, whatever coupon and whatever line-item quantities the
\* request carried, and no step of create_order raises a product's stock.
C28_AmountsInRange ==
    [][/\ \A o \in DOMAIN orders' :
             /\ 0 <= orders'[o].discount_amount
             /\ orders'[o].discount_amount <= orders'[o].total_amount
             /\ orders'[o].final_amount >= 0
       /\ \A p \in DOMAIN products :
             products'[p].stock_quantity <= products[p].stock_quantity]_vars

\* C29: an order whose payment_status is paid keeps it in every step:
\* webhook redeliveries, status changes, cancellation, refund of its
\* payment, create-payment-order and the admin's verify-payment.
C29_PaidIsAbsorbing ==
    [][\A o \in DOMAIN orders :
          orders[o].payment_status = "paid"
          => /\ o \in DOMAIN orders'
             /\ orders'[o].payment_status = "paid"]_vars

\* C29 witness: the cash-on-delivery order 1 was paid, its Payment row has
\* been refunded, the order cancelled, and the event delivered again after
\* that: the order is still paid.
C29_Witness ==
    /\ orders[1].payment_type = "cod"
    /\ orders[1].payment_status = "paid"
    /\ orders[1].order_status = "cancelled"
    /\ \E i, j, k \in DOMAIN responses :
          /\ i < j /\ j < k
          /\ responses[i].op = "admin_refund_payment" /\ responses[i].status = 200
          /\ responses[j].op = "admin_cancel_order" /\ responses[j].status = 200
          /\ responses[k].op = "payment_webhook" /\ responses[k].status = 200

\* C30: in every committed state a coupon's usage_count, 0 at the start, is
\* the number of CouponUsage rows recorded for the coupon, whether the
\* orders that redeem it run one after the other or at the same time.
C30_UsageCountMatchesRows ==
    \A c \in DOMAIN coupons :
        coupons[c].usage_count =
            Cardinality({i \in DOMAIN coupon_usages :
                            coupon_usages[i].coupon_id = c})

====
